---- MODULE Spec2Model ----
(***************************************************************************)
(* Model of backend/services/vector_service.py (VectorStoreService): the   *)
(* per-document index store (in-memory cache backed by one pickle file per *)
(* doc_id) and the multi-document search built on it.                      *)
(*                                                                         *)
(* Python values are modelled as follows.                                  *)
(*   - a cache slot / a file is a record with a "tag" field;               *)
(*   - a dict used as document metadata is a record [none, items]: none    *)
(*     is TRUE for Python's None, items is the set of <<key, value>>;      *)
(*   - a faiss.IndexFlatL2 is [d |-> dimension, vecs |-> added vectors];   *)
(*   - a similarity score 1 / (1 + dist) is the fraction [num, den];       *)
(*   - a raised exception is the value of the "res" field of a result.     *)
(***************************************************************************)
EXTENDS Integers, Sequences, FiniteSets, TLC

VARIABLES cache, disk, last, faults

vars == <<cache, disk, last, faults>>

(***************************************************************************)
(* Bounds                                                                  *)
(***************************************************************************)
MaxChunks == 2      \* longest chunk list / embedding list of a document
MaxIds == 2         \* longest doc_ids list of one search_multi_documents call
MaxK == 2           \* largest top_k / top_k_per_doc
MaxTotal == 3       \* largest max_total_results
MaxFaults == 1      \* storage failures injected in one behaviour

DocIds == {"A", "B"}

Min(a, b) == IF a <= b THEN a ELSE b

(***************************************************************************)
(* Values                                                                  *)
(***************************************************************************)
Absent == [tag |-> "absent"]
Corrupt == [tag |-> "corrupt"]
NoValue == [tag |-> "none"]
Bool(b) == [tag |-> "bool", val |-> b]

PyNone == [none |-> TRUE, items |-> {}]
EmptyDict == [none |-> FALSE, items |-> {}]
Dict(items) == [none |-> FALSE, items |-> items]

\* Python truthiness of "metadata": None and the empty dict are falsy
Truthy(md) == ~md.none /\ md.items # {}

\* "metadata or {}"
OrEmptyDict(md) == IF Truthy(md) THEN md ELSE EmptyDict

\* dict.get(key, default) on a dict with string keys
DictGet(data, key, default) == IF key \in DOMAIN data THEN data[key] ELSE default

\* ChunkMetadata as produced for document d: chunk_index 0 .. n-1
MkChunks(d, n) == [i \in 1..n |-> [doc_id |-> d, chunk_index |-> i - 1]]

SeqsUpTo(S, n) == UNION {[1..k -> S] : k \in 0..n}

\* embeddings handed to store_document in the store specification: n
\* pairwise different vectors of one length, and the same list with a last
\* vector of another length (a ragged list)
Uniform(n) == [i \in 1..n |-> <<i>>]
RaggedList(n) == [i \in 1..n |-> IF i = n THEN <<i, i>> ELSE <<i>>]

\* <<chunks, embeddings>> handed to store_document: as many vectors as
\* chunks (none included), one vector or one chunk missing, a ragged list
PutInputs(d) ==
    {<<MkChunks(d, n), Uniform(n)>> : n \in 0..MaxChunks}
    \cup {<<MkChunks(d, n), Uniform(n - 1)>> : n \in 1..MaxChunks}
    \cup {<<MkChunks(d, n - 1), Uniform(n)>> : n \in 1..MaxChunks}
    \cup {<<MkChunks(d, n), RaggedList(n)>> : n \in 2..MaxChunks}

Metadatas == {PyNone, Dict({<<"num_pages", 1>>})}

(***************************************************************************)
(* store_document, lines 45-55: np.array(embeddings).astype('float32'),    *)
(* shape[1], faiss.IndexFlatL2(dimension), index.add                       *)
(***************************************************************************)
Ragged(embeddings) ==
    \E i, j \in 1..Len(embeddings) : Len(embeddings[i]) # Len(embeddings[j])

\* variant: an empty list of embeddings builds an index without vectors
BuildIndexAcceptsEmpty(chunks, embeddings) ==
    IF Len(chunks) # Len(embeddings)
    THEN [res |-> "ValueError_count_mismatch", index |-> NoValue]
    ELSE IF Ragged(embeddings)
    THEN [res |-> "ValueError_inhomogeneous", index |-> NoValue]
    ELSE [res |-> "ok", index |-> [d |-> 0, vecs |-> embeddings]]

BuildIndex(chunks, embeddings) ==
    IF Len(chunks) # Len(embeddings)
    THEN [res |-> "ValueError_count_mismatch", index |-> NoValue]
    ELSE IF Ragged(embeddings)
    THEN [res |-> "ValueError_inhomogeneous", index |-> NoValue]
    ELSE IF Len(embeddings) = 0
    THEN [res |-> "IndexError_no_dimension", index |-> NoValue]
    ELSE [res |-> "ok",
          index |-> [d |-> Len(embeddings[1]), vecs |-> embeddings]]

BuildErrors == {"ValueError_count_mismatch", "ValueError_inhomogeneous",
                "IndexError_no_dimension"}

Entry(index, chunks, metadata) ==
    [tag |-> "entry", index |-> index, chunks |-> chunks, metadata |-> metadata]

File(data) == [tag |-> "file", data |-> data]

(***************************************************************************)
(* _save_to_disk: open(file_path, "wb") then pickle.dump.  io is the       *)
(* outcome of the storage call: "open_fails" leaves the directory as it    *)
(* was, "dump_fails" leaves the truncated file behind.                     *)
(***************************************************************************)
\* variant: an existing file is kept instead of being rewritten
_save_to_disk_keep_existing(dk, doc_id, index, chunks, metadata, io) ==
    IF io = "open_fails"
    THEN [disk |-> dk, res |-> "OSError"]
    ELSE IF io = "dump_fails"
    THEN [disk |-> [dk EXCEPT ![doc_id] = Corrupt], res |-> "OSError"]
    ELSE IF dk[doc_id].tag = "file"
    THEN [disk |-> dk, res |-> "ok"]
    ELSE [disk |-> [dk EXCEPT ![doc_id] =
                        File([index |-> index, chunks |-> chunks,
                              metadata |-> metadata])],
          res |-> "ok"]

_save_to_disk(dk, doc_id, index, chunks, metadata, io) ==
    IF io = "open_fails"
    THEN [disk |-> dk, res |-> "OSError"]
    ELSE IF io = "dump_fails"
    THEN [disk |-> [dk EXCEPT ![doc_id] = Corrupt], res |-> "OSError"]
    ELSE [disk |-> [dk EXCEPT ![doc_id] =
                        File([index |-> index, chunks |-> chunks,
                              metadata |-> metadata])],
          res |-> "ok"]

\* variant: a failed build drops the slot of doc_id from the cache
store_document_evicts(c, dk, doc_id, chunks, embeddings, metadata, io) ==
    LET b == BuildIndex(chunks, embeddings) IN
    IF b.res # "ok"
    THEN [cache |-> [c EXCEPT ![doc_id] = Absent], disk |-> dk, res |-> b.res]
    ELSE LET c2 == [c EXCEPT ![doc_id] =
                        Entry(b.index, chunks, OrEmptyDict(metadata))]
             s == _save_to_disk(dk, doc_id, b.index, chunks, metadata, io)
         IN [cache |-> c2, disk |-> s.disk, res |-> s.res]

store_document(c, dk, doc_id, chunks, embeddings, metadata, io) ==
    LET b == BuildIndex(chunks, embeddings) IN
    IF b.res # "ok"
    THEN [cache |-> c, disk |-> dk, res |-> b.res]
    ELSE LET c2 == [c EXCEPT ![doc_id] =
                        Entry(b.index, chunks, OrEmptyDict(metadata))]
             s == _save_to_disk(dk, doc_id, b.index, chunks, metadata, io)
         IN [cache |-> c2, disk |-> s.disk, res |-> s.res]

(***************************************************************************)
(* _load_document                                                          *)
(***************************************************************************)
\* variant: the cache keeps the loaded entry only, dropping the others
_load_document_single_slot(c, dk, doc_id, io) ==
    IF c[doc_id].tag = "entry"
    THEN [cache |-> c, res |-> "ok", out |-> c[doc_id]]
    ELSE IF dk[doc_id].tag = "absent"
    THEN [cache |-> c, res |-> "FileNotFoundError", out |-> NoValue]
    ELSE IF io = "read_fails"
    THEN [cache |-> c, res |-> "OSError", out |-> NoValue]
    ELSE IF dk[doc_id].tag = "corrupt"
    THEN [cache |-> c, res |-> "UnpicklingError", out |-> NoValue]
    ELSE LET data == dk[doc_id].data
             e == Entry(data["index"], data["chunks"],
                        DictGet(data, "metadata", EmptyDict))
         IN [cache |-> [d \in DocIds |-> IF d = doc_id THEN e ELSE Absent],
             res |-> "ok", out |-> e]

\* variant: the loaded entry is returned without being put in the cache
_load_document_no_populate(c, dk, doc_id, io) ==
    IF c[doc_id].tag = "entry"
    THEN [cache |-> c, res |-> "ok", out |-> c[doc_id]]
    ELSE IF dk[doc_id].tag = "absent"
    THEN [cache |-> c, res |-> "FileNotFoundError", out |-> NoValue]
    ELSE IF io = "read_fails"
    THEN [cache |-> c, res |-> "OSError", out |-> NoValue]
    ELSE IF dk[doc_id].tag = "corrupt"
    THEN [cache |-> c, res |-> "UnpicklingError", out |-> NoValue]
    ELSE LET data == dk[doc_id].data
             e == Entry(data["index"], data["chunks"],
                        DictGet(data, "metadata", EmptyDict))
         IN [cache |-> c, res |-> "ok", out |-> e]

_load_document(c, dk, doc_id, io) ==
    IF c[doc_id].tag = "entry"
    THEN [cache |-> c, res |-> "ok", out |-> c[doc_id]]
    ELSE IF dk[doc_id].tag = "absent"
    THEN [cache |-> c, res |-> "FileNotFoundError", out |-> NoValue]
    ELSE IF io = "read_fails"
    THEN [cache |-> c, res |-> "OSError", out |-> NoValue]
    ELSE IF dk[doc_id].tag = "corrupt"
    THEN [cache |-> c, res |-> "UnpicklingError", out |-> NoValue]
    ELSE LET data == dk[doc_id].data
             e == Entry(data["index"], data["chunks"],
                        DictGet(data, "metadata", EmptyDict))
         IN [cache |-> [c EXCEPT ![doc_id] = e], res |-> "ok", out |-> e]

(***************************************************************************)
(* delete_document: every exception is caught and answered with False      *)
(***************************************************************************)
\* variant: the delete empties the whole cache
delete_document_clears(c, dk, doc_id, io) ==
    LET c2 == [d \in DocIds |-> Absent] IN
    IF dk[doc_id].tag # "absent"
    THEN IF io = "unlink_fails"
         THEN [cache |-> c2, disk |-> dk, res |-> "ok", out |-> Bool(FALSE)]
         ELSE [cache |-> c2, disk |-> [dk EXCEPT ![doc_id] = Absent],
               res |-> "ok", out |-> Bool(TRUE)]
    ELSE [cache |-> c2, disk |-> dk, res |-> "ok", out |-> Bool(FALSE)]

delete_document(c, dk, doc_id, io) ==
    LET c2 == [c EXCEPT ![doc_id] = Absent] IN
    IF dk[doc_id].tag # "absent"
    THEN IF io = "unlink_fails"
         THEN [cache |-> c2, disk |-> dk, res |-> "ok", out |-> Bool(FALSE)]
         ELSE [cache |-> c2, disk |-> [dk EXCEPT ![doc_id] = Absent],
               res |-> "ok", out |-> Bool(TRUE)]
    ELSE [cache |-> c2, disk |-> dk, res |-> "ok", out |-> Bool(FALSE)]

document_exists(c, dk, doc_id) ==
    IF c[doc_id].tag = "entry" THEN TRUE ELSE dk[doc_id].tag # "absent"

EmptyCache == [d \in DocIds |-> Absent]

clear_cache(c) == EmptyCache

get_cache_size(c) == Cardinality({d \in DocIds : c[d].tag = "entry"})

(***************************************************************************)
(* The store specification.  last is the log of the latest call: its        *)
(* operation, doc_id, arguments, storage outcome io, raised exception or   *)
(* "ok" (res), returned value (out) and the slots of doc_id before the     *)
(* call (pre).  faults counts the storage failures so far.                 *)
(***************************************************************************)
NoArg == [tag |-> "none"]

\* what the log keeps of the slots of doc_id before a call
Before(c, dk, d) ==
    [c |-> c[d].tag, k |-> dk[d].tag,
     n |-> IF dk[d].tag = "file" THEN Len(dk[d].data.chunks) ELSE 0]

NoBefore == [c |-> "absent", k |-> "absent", n |-> 0]

Init ==
    /\ cache = EmptyCache
    /\ disk = [d \in DocIds |-> Absent]
    /\ last = [op |-> "init", doc |-> "A", res |-> "ok", out |-> NoValue,
               arg |-> NoArg, io |-> "ok", pre |-> NoBefore]
    /\ faults = 0

Put ==
    \E d \in DocIds, md \in Metadatas, io \in {"ok", "open_fails", "dump_fails"} :
    \E in \in PutInputs(d) :
      LET chunks == in[1]
          embeddings == in[2] IN
        \E r \in {store_document(cache, disk, d, chunks, embeddings, md, io)} :
        /\ io # "ok" => r.res = "OSError" /\ faults < MaxFaults
        /\ faults' = IF io # "ok" THEN faults + 1 ELSE faults
        /\ cache' = r.cache
        /\ disk' = r.disk
        /\ last' = [op |-> "put", doc |-> d, res |-> r.res, out |-> NoValue,
                    arg |-> IF r.res # "ok" THEN NoArg
                            ELSE [tag |-> "put", chunks |-> chunks,
                                  embeddings |-> embeddings, metadata |-> md],
                    io |-> io,
                    pre |-> Before(cache, disk, d)]

Get ==
    \E d \in DocIds, io \in {"ok", "read_fails"} :
        \E r \in {_load_document(cache, disk, d, io)} :
        /\ io # "ok" => r.res = "OSError" /\ faults < MaxFaults
        /\ faults' = IF io # "ok" THEN faults + 1 ELSE faults
        /\ cache' = r.cache
        /\ last' = [op |-> "get", doc |-> d, res |-> r.res, out |-> r.out,
                    arg |-> NoArg, io |-> io,
                    pre |-> Before(cache, disk, d)]
        /\ UNCHANGED disk

Delete ==
    \E d \in DocIds, io \in {"ok", "unlink_fails"} :
        \E r \in {delete_document(cache, disk, d, io)} :
        /\ io # "ok" => disk[d].tag # "absent" /\ faults < MaxFaults
        /\ faults' = IF io # "ok" THEN faults + 1 ELSE faults
        /\ cache' = r.cache
        /\ disk' = r.disk
        /\ last' = [op |-> "delete", doc |-> d, res |-> r.res, out |-> r.out,
                    arg |-> NoArg, io |-> io,
                    pre |-> Before(cache, disk, d)]

Exists ==
    \E d \in DocIds :
        /\ last' = [op |-> "exists", doc |-> d, res |-> "ok",
                    out |-> Bool(document_exists(cache, disk, d)),
                    arg |-> NoArg, io |-> "ok",
                    pre |-> Before(cache, disk, d)]
        /\ UNCHANGED <<cache, disk, faults>>

Clear ==
    /\ cache' = clear_cache(cache)
    /\ last' = [op |-> "clear", doc |-> "A", res |-> "ok", out |-> NoValue,
                arg |-> NoArg, io |-> "ok", pre |-> NoBefore]
    /\ UNCHANGED <<disk, faults>>

Size ==
    /\ last' = [op |-> "size", doc |-> "A", res |-> "ok",
                out |-> [tag |-> "int", val |-> get_cache_size(cache)],
                arg |-> NoArg, io |-> "ok", pre |-> NoBefore]
    /\ UNCHANGED <<cache, disk, faults>>

Next == Put \/ Get \/ Delete \/ Exists \/ Clear \/ Size

Spec == Init /\ [][Next]_vars

(***************************************************************************)
(* search: index.search of faiss.IndexFlatL2 (exact squared L2 distance,   *)
(* nearest first, the lower position first among equal distances) and the  *)
(* construction of the SearchResult list                                   *)
(***************************************************************************)
RECURSIVE SqDist(_, _)
SqDist(v, q) ==
    IF v = <<>> THEN 0
    ELSE (Head(v) - Head(q)) * (Head(v) - Head(q)) + SqDist(Tail(v), Tail(q))

\* variant: the farthest position first
InsertByDistanceFarthest(sorted, i, vecs, q) ==
    LET p == Cardinality({j \in 1..Len(sorted) :
                            SqDist(vecs[sorted[j]], q) >= SqDist(vecs[i], q)})
    IN SubSeq(sorted, 1, p) \o <<i>> \o SubSeq(sorted, p + 1, Len(sorted))

\* position i put into the positions sorted by distance to q, after the
\* positions that are as near
InsertByDistance(sorted, i, vecs, q) ==
    LET p == Cardinality({j \in 1..Len(sorted) :
                            SqDist(vecs[sorted[j]], q) <= SqDist(vecs[i], q)})
    IN SubSeq(sorted, 1, p) \o <<i>> \o SubSeq(sorted, p + 1, Len(sorted))

\* the first n positions of vecs, nearest to q first, the lower position
\* first among equal distances
RECURSIVE NearestOf(_, _, _)
NearestOf(vecs, q, n) ==
    IF n = 0 THEN <<>>
    ELSE InsertByDistance(NearestOf(vecs, q, n - 1), n, vecs, q)

Nearest(index, q) == NearestOf(index.vecs, q, Len(index.vecs))

\* score=float(1 / (1 + dist))
Score(dist) == [num |-> 1, den |-> 1 + dist]

ScoreLess(a, b) == a.num * b.den < b.num * a.den

SearchResult(doc_id, chunk, dist) ==
    [doc_id |-> doc_id,
     chunk_id |-> <<chunk.doc_id, "chunk", chunk.chunk_index>>,
     score |-> Score(dist),
     chunk_index |-> chunk.chunk_index,
     distance |-> dist]

search(c, dk, doc_id, query_embedding, top_k, io) ==
    LET r == _load_document(c, dk, doc_id, io) IN
    IF r.res # "ok"
    THEN [cache |-> r.cache, res |-> r.res, out |-> <<>>]
    ELSE LET index == r.out.index
             chunks == r.out.chunks
         IN IF Len(query_embedding) # index.d
            THEN [cache |-> r.cache, res |-> "AssertionError", out |-> <<>>]
            ELSE LET k == Min(top_k, Len(chunks))
                     idx == SubSeq(Nearest(index, query_embedding), 1, k)
                 IN [cache |-> r.cache, res |-> "ok",
                     out |-> [p \in 1..k |->
                                SearchResult(doc_id, chunks[idx[p]],
                                    SqDist(index.vecs[idx[p]], query_embedding))]]

\* variant: the loop ends at the first doc_id whose search fails
RECURSIVE SearchEachStops(_, _, _, _, _, _, _)
SearchEachStops(c, dk, doc_ids, q, top_k_per_doc, all_results, warned) ==
    IF doc_ids = <<>>
    THEN [cache |-> c, all_results |-> all_results, warned |-> warned]
    ELSE LET doc_id == Head(doc_ids)
             r == search(c, dk, doc_id, q, top_k_per_doc, "ok")
         IN IF r.res = "ok"
            THEN SearchEachStops(r.cache, dk, Tail(doc_ids), q, top_k_per_doc,
                                 all_results \o r.out, warned)
            ELSE [cache |-> r.cache, all_results |-> all_results,
                  warned |-> Append(warned, doc_id)]

\* the loop of search_multi_documents (lines 142-148): all_results, and the
\* doc_ids warned about
RECURSIVE SearchEach(_, _, _, _, _, _, _)
SearchEach(c, dk, doc_ids, q, top_k_per_doc, all_results, warned) ==
    IF doc_ids = <<>>
    THEN [cache |-> c, all_results |-> all_results, warned |-> warned]
    ELSE LET doc_id == Head(doc_ids)
             r == search(c, dk, doc_id, q, top_k_per_doc, "ok")
         IN IF r.res = "ok"
            THEN SearchEach(r.cache, dk, Tail(doc_ids), q, top_k_per_doc,
                            all_results \o r.out, warned)
            ELSE SearchEach(r.cache, dk, Tail(doc_ids), q, top_k_per_doc,
                            all_results, Append(warned, doc_id))

\* variant: the sort without reverse=True, smallest first
InsertByScoreAscending(sorted, x) ==
    LET p == Cardinality({i \in 1..Len(sorted) :
                            ~ScoreLess(x.score, sorted[i].score)})
    IN SubSeq(sorted, 1, p) \o <<x>> \o SubSeq(sorted, p + 1, Len(sorted))

\* list.sort(key=lambda x: x.score, reverse=True): stable, greatest first
InsertByScore(sorted, x) ==
    LET p == Cardinality({i \in 1..Len(sorted) :
                            ~ScoreLess(sorted[i].score, x.score)})
    IN SubSeq(sorted, 1, p) \o <<x>> \o SubSeq(sorted, p + 1, Len(sorted))

RECURSIVE SortByScore(_)
SortByScore(results) ==
    IF results = <<>> THEN <<>>
    ELSE InsertByScore(SortByScore(SubSeq(results, 1, Len(results) - 1)),
                       results[Len(results)])

\* variant: the slice keeps one result more
LimitOffByOne(results, max_total_results) ==
    SubSeq(results, 1, Min(max_total_results + 1, Len(results)))

\* all_results[:max_total_results], max_total_results >= 0
Limit(results, max_total_results) ==
    SubSeq(results, 1, Min(max_total_results, Len(results)))

search_multi_documents(c, dk, doc_ids, q, top_k_per_doc, max_total_results) ==
    LET e == SearchEach(c, dk, doc_ids, q, top_k_per_doc, <<>>, <<>>)
    IN [cache |-> e.cache, res |-> "ok", warned |-> e.warned,
        out |-> Limit(SortByScore(e.all_results), max_total_results)]

(***************************************************************************)
(* The search specification: one search_multi_documents call in each store *)
(* that store_document, _load_document and clear_cache can leave behind    *)
(* (a document is absent, stored or left truncated by a failed write; a    *)
(* stored document is cached or not).  Embeddings and queries are vectors  *)
(* of one coordinate.                                                      *)
(***************************************************************************)
SearchVecs == {<<0>>, <<1>>}
QueryVecs == {<<0>>, <<1>>}

NoDisk == [d \in DocIds |-> Absent]

StoredFiles(d) ==
    {store_document(EmptyCache, NoDisk, d, MkChunks(d, n), e, PyNone, "ok").disk[d] :
        <<n, e>> \in {ne \in (1..MaxChunks) \X SeqsUpTo(SearchVecs, MaxChunks) :
                        Len(ne[2]) = ne[1]}}

Loaded(dk, d) == _load_document(EmptyCache, dk, d, "ok").out

SearchInit ==
    /\ disk \in {dk \in [DocIds -> UNION {StoredFiles(d) : d \in DocIds}
                                     \cup {Absent, Corrupt}] :
                    \A d \in DocIds : dk[d].tag = "file" => dk[d] \in StoredFiles(d)}
    /\ \E L \in SUBSET {d \in DocIds : disk[d].tag = "file"} :
            cache = [d \in DocIds |-> IF d \in L THEN Loaded(disk, d) ELSE Absent]
    /\ faults = 0
    /\ last = [op |-> "init", doc |-> "A", res |-> "ok", out |-> NoValue,
               arg |-> NoArg, io |-> "ok",
               pre |-> NoBefore]

SearchMulti ==
    \E doc_ids \in SeqsUpTo(DocIds, MaxIds), q \in QueryVecs,
       top_k_per_doc \in 1..MaxK, max_total_results \in 1..MaxTotal :
    \E r \in {search_multi_documents(cache, disk, doc_ids, q, top_k_per_doc,
                                     max_total_results)} :
        /\ cache' = r.cache
        /\ last' = [op |-> "search_multi", doc |-> "A", res |-> r.res,
                    out |-> [tag |-> "results", val |-> r.out,
                             warned |-> r.warned],
                    arg |-> [tag |-> "search", doc_ids |-> doc_ids, q |-> q,
                             top_k_per_doc |-> top_k_per_doc,
                             max_total_results |-> max_total_results],
                    io |-> "ok",
                    pre |-> Before(cache, disk, "A")]
        /\ UNCHANGED <<disk, faults>>

NextSearch == last.op = "init" /\ SearchMulti

SpecSearch == SearchInit /\ [][NextSearch]_vars

(***************************************************************************)
(* Properties of the index store                                           *)
(***************************************************************************)
\* the items of a metadata value, None having none
MdItems(md) == md.items

\* slot holds exactly the index built from the arguments a of a put
HoldsIndexOf(slot, a) ==
    /\ slot.chunks = a.chunks
    /\ slot.index.vecs = a.embeddings
    /\ slot.index.d = Len(a.embeddings[1])
    /\ MdItems(slot.metadata) = MdItems(a.metadata)

\* C1: when store_document fails at build time (count mismatch, no
\* embeddings, embeddings of unequal length), the cache slot and the file of
\* that doc_id are what they were before the call.
C1_BuildFailureIsAllOrNothing ==
    [][(last'.op = "put" /\ last'.res \in BuildErrors)
            => (cache' = cache /\ disk' = disk)]_vars

\* C1 witness: a ragged put failed on a doc_id that is cached and on disk
C1_Witness ==
    /\ last.op = "put"
    /\ last.res = "ValueError_inhomogeneous"
    /\ last.pre.c = "entry"
    /\ last.pre.k = "file"
    /\ cache[last.doc].tag = "entry"
    /\ disk[last.doc].tag = "file"

\* C2: a get that follows a delete of the same doc_id fails with
\* FileNotFoundError, and a delete of a doc_id with no file returns False
\* without raising.
C2_DeleteThenGetNotFound ==
    [][/\ (last.op = "delete" /\ last'.op = "get" /\ last'.doc = last.doc)
            => last'.res = "FileNotFoundError"
       /\ (last'.op = "delete" /\ disk[last'.doc].tag = "absent")
            => (last'.res = "ok" /\ last'.out = Bool(FALSE))]_vars

\* C3: a storage failure during put, get or delete is raised to the caller;
\* the call neither returns normally (for delete: False) nor raises
\* FileNotFoundError.
C3_StorageFailurePropagates ==
    last.io # "ok" => last.res \notin {"ok", "FileNotFoundError"}

\* C4: get returns the cached entry on a hit; on a miss with a file it loads
\* the file, puts the entry in the cache under doc_id and returns it; with
\* neither it raises FileNotFoundError and leaves the cache alone.
C4_GetContract ==
    [][(last'.op = "get" /\ last'.io = "ok") =>
        LET d == last'.doc IN
        IF cache[d].tag = "entry"
        THEN last'.res = "ok" /\ last'.out = cache[d] /\ cache' = cache
        ELSE IF disk[d].tag = "file"
        THEN /\ last'.res = "ok"
             /\ last'.out.tag = "entry"
             /\ last'.out.index = disk[d].data.index
             /\ last'.out.chunks = disk[d].data.chunks
             /\ MdItems(last'.out.metadata) = MdItems(disk[d].data.metadata)
             /\ cache' = [cache EXCEPT ![d] = last'.out]
        ELSE IF disk[d].tag = "absent"
        THEN last'.res = "FileNotFoundError" /\ cache' = cache
        ELSE last'.res # "ok" /\ cache' = cache]_vars

\* C4 witness: a get missed the cache, loaded the file and cached the entry
C4_Witness ==
    /\ last.op = "get"
    /\ last.res = "ok"
    /\ last.pre.c = "absent"
    /\ last.pre.k = "file"
    /\ cache[last.doc] = last.out

\* the entry that the store_document which wrote the file f put in the
\* cache (line 58), from the arguments it handed to _save_to_disk (line 61)
InstalledBy(f) ==
    Entry(f.data.index, f.data.chunks, OrEmptyDict(f.data.metadata))

\* C5: after a successful put, clearing the cache and getting the doc_id
\* yields the index the put installed: same chunks, vectors and metadata.
C5_RoundTrip ==
    [][(/\ last.op = "clear"
        /\ last'.op = "get"
        /\ last'.res = "ok")
            => last'.out = InstalledBy(disk[last'.doc])]_vars

\* C6: the cache is a pure optimisation: get and exists answer what a store
\* without cache answers.  The files never depend on the cache (every write
\* and removal is done whatever the cache holds), so the store without cache
\* is this disk read through an empty cache, under the same storage outcome.
C6_CacheIsPureOptimisation ==
    [][/\ last'.op = "get" =>
            LET r == _load_document(EmptyCache, disk, last'.doc, last'.io)
            IN last'.res = r.res /\ last'.out = r.out
       /\ last'.op = "exists" =>
            last'.out = Bool(document_exists(EmptyCache, disk, last'.doc))]_vars

\* C7: a successful put over an entry installed by an earlier successful put
\* leaves, in the cache and on disk, exactly the index built from the new
\* arguments.
C7_PutOverwrites ==
    (last.op = "put" /\ last.res = "ok" /\ last.pre.k = "file")
        => /\ cache[last.doc].tag = "entry"
           /\ HoldsIndexOf(cache[last.doc], last.arg)
           /\ disk[last.doc].tag = "file"
           /\ HoldsIndexOf(disk[last.doc].data, last.arg)

\* C7 witness: a put replaced an entry with other chunks, vectors and metadata
C7_Witness ==
    /\ last.op = "put"
    /\ last.res = "ok"
    /\ last.pre.k = "file"
    /\ last.pre.c = "entry"
    /\ last.pre.n > Len(last.arg.chunks)
    /\ last.arg.metadata = PyNone

(***************************************************************************)
(* Properties of search_multi_documents.  They relate the value returned   *)
(* by a call (last') to the store the call started in (cache, disk).       *)
(***************************************************************************)
\* the search of one doc_id of the call fails in the store the call starts in
SearchFails(a, doc_id) ==
    search(cache, disk, doc_id, a.q, a.top_k_per_doc, "ok").res # "ok"

\* doc_ids without the entries whose search fails
Surviving(a) ==
    LET Ok(doc_id) == ~SearchFails(a, doc_id) IN SelectSeq(a.doc_ids, Ok)

\* C8: a call returns normally whatever documents fail, and returns what the
\* call returns for the list without the failing doc_ids.
C8_PartialFailureTolerance ==
    [][last'.op = "search_multi" =>
        \A a \in {last'.arg} : \A doc_ids \in {Surviving(a)} :
        /\ last'.res = "ok"
        /\ last'.out.val =
             search_multi_documents(cache, disk, doc_ids, a.q,
                 a.top_k_per_doc, a.max_total_results).out]_vars

\* C8 witness: a call warned about a failed document that was followed by a
\* good one, and returned the results of the good one
C8_Witness ==
    /\ last.op = "search_multi"
    /\ Len(last.arg.doc_ids) >= 2
    /\ last.out.warned = <<last.arg.doc_ids[1]>>
    /\ last.out.val # <<>>
    /\ \A i \in 1..Len(last.out.val) : last.out.val[i].doc_id = last.arg.doc_ids[2]

\* number of chunks of doc_id in the store the call starts in
ChunkCount(a, doc_id) ==
    Len(_load_document(cache, disk, doc_id, "ok").out.chunks)

RECURSIVE ExpectedCandidates(_, _)
ExpectedCandidates(a, doc_ids) ==
    IF doc_ids = <<>> THEN 0
    ELSE (IF SearchFails(a, Head(doc_ids)) THEN 0
          ELSE Min(a.top_k_per_doc, ChunkCount(a, Head(doc_ids))))
         + ExpectedCandidates(a, Tail(doc_ids))

\* C9: the result has min(max_total_results, sum over the retrievable
\* entries d of doc_ids of min(top_k_per_doc, chunk_count(d))) elements.
C9_ResultLength ==
    [][last'.op = "search_multi" =>
        LET a == last'.arg IN
        Len(last'.out.val) =
            Min(a.max_total_results, ExpectedCandidates(a, a.doc_ids))]_vars

\* C9 witness: two documents gave two candidates each and three were returned
C9_Witness ==
    /\ last.op = "search_multi"
    /\ last.arg.doc_ids = <<"A", "B">>
    /\ last.arg.top_k_per_doc = 2
    /\ last.arg.max_total_results = 3
    /\ \A d \in DocIds : cache[d].tag = "entry" /\ Len(cache[d].chunks) >= 2
    /\ Len(last.out.val) = 3

\* the candidates of a call: the results of every entry of doc_ids whose
\* search succeeds, in request order
RECURSIVE Candidates(_, _)
Candidates(a, doc_ids) ==
    IF doc_ids = <<>> THEN <<>>
    ELSE LET r == search(cache, disk, Head(doc_ids), a.q, a.top_k_per_doc, "ok")
         IN (IF r.res = "ok" THEN r.out ELSE <<>>) \o Candidates(a, Tail(doc_ids))

Count(seq, x) == Cardinality({i \in 1..Len(seq) : seq[i] = x})

\* C10: the result is sorted by score, greatest first, every result is a
\* candidate, and no candidate left out has a score greater than a result.
C10_SortedAndBestKept ==
    [][last'.op = "search_multi" =>
        \A a \in {last'.arg}, out \in {last'.out.val} :
        \A pool \in {Candidates(a, a.doc_ids)} :
           /\ \A i, j \in 1..Len(out) :
                i < j => ~ScoreLess(out[i].score, out[j].score)
           /\ \A i \in 1..Len(out) : Count(out, out[i]) <= Count(pool, out[i])
           /\ \A i \in 1..Len(pool) :
                Count(out, pool[i]) < Count(pool, pool[i])
                    => \A j \in 1..Len(out) :
                            ~ScoreLess(out[j].score, pool[i].score)]_vars

\* C10 witness: a call returned three results of different scores out of four
\* candidates, the first document of the request holding the worst one
C10_Witness ==
    /\ last.op = "search_multi"
    /\ last.arg.doc_ids = <<"A", "B">>
    /\ last.arg.top_k_per_doc = 2
    /\ \A d \in DocIds : cache[d].tag = "entry" /\ Len(cache[d].chunks) >= 2
    /\ Len(last.out.val) = 3
    /\ last.out.val[1].doc_id = "B"
    /\ ScoreLess(last.out.val[3].score, last.out.val[1].score)
    /\ \E i \in 1..3 : last.out.val[i].doc_id = "A"

\* the doc_ids in ascending order
DocIdsAscending == <<"A", "B">>

DocIdRank(d) == CHOOSE i \in 1..Len(DocIdsAscending) : DocIdsAscending[i] = d

\* rank of the result x in the results of the search of its own document
RankIn(a, x) ==
    LET r == search(cache, disk, x.doc_id, a.q, a.top_k_per_doc, "ok").out
    IN CHOOSE p \in 1..Len(r) : r[p] = x

RECURSIVE Ranks(_, _)
Ranks(a, out) ==
    IF out = <<>> THEN <<>>
    ELSE Append(Ranks(a, SubSeq(out, 1, Len(out) - 1)), RankIn(a, out[Len(out)]))

\* C11: results of equal score are ordered by their rank in their own
\* document first and by doc_id ascending next, whatever the order of doc_ids
\* in the request.
C11_TiesByRankThenDocId ==
    [][last'.op = "search_multi" =>
        \A a \in {last'.arg}, out \in {last'.out.val} :
        \A rank \in {Ranks(a, out)} :
        \A i, j \in 1..Len(out) :
            (/\ i < j
             /\ ~ScoreLess(out[i].score, out[j].score)
             /\ ~ScoreLess(out[j].score, out[i].score))
                => \/ rank[i] < rank[j]
                   \/ /\ rank[i] = rank[j]
                      /\ DocIdRank(out[i].doc_id) <= DocIdRank(out[j].doc_id)]_vars

(***************************************************************************)
(* The query specification: one search call on one document, in each store *)
(* of SearchInit.  A query has the dimension of the stored vectors or one  *)
(* coordinate more.                                                        *)
(***************************************************************************)
SearchQueries == QueryVecs \cup {<<0, 0>>}

Search ==
    \E d \in DocIds, q \in SearchQueries, top_k \in 1..MaxK :
    \E r \in {search(cache, disk, d, q, top_k, "ok")} :
        /\ cache' = r.cache
        /\ last' = [op |-> "search", doc |-> d, res |-> r.res,
                    out |-> [tag |-> "results", val |-> r.out, warned |-> <<>>],
                    arg |-> [tag |-> "query", q |-> q, top_k |-> top_k],
                    io |-> "ok",
                    pre |-> NoBefore]
        /\ UNCHANGED <<disk, faults>>

NextQuery == last.op = "init" /\ Search

SpecQuery == SearchInit /\ [][NextQuery]_vars

\* C12: a search of one document with top_k > 0 that returns, returns
\* min(top_k, chunk count) results, each a different chunk of that document,
\* in order of non-decreasing distance and non-increasing score.
C12_QueryLengthAndOrder ==
    [][(last'.op = "search" /\ last'.res = "ok") =>
        \A out \in {last'.out.val} :
        \A chunks \in {_load_document(cache, disk, last'.doc, "ok").out.chunks} :
           /\ Len(out) = Min(last'.arg.top_k, Len(chunks))
           /\ \A i \in 1..Len(out) :
                /\ out[i].doc_id = last'.doc
                /\ \E p \in 1..Len(chunks) :
                        /\ chunks[p].chunk_index = out[i].chunk_index
                        /\ out[i].distance =
                             SqDist(disk[last'.doc].data.index.vecs[p], last'.arg.q)
           /\ \A i, j \in 1..Len(out) :
                i < j => /\ out[i].chunk_index # out[j].chunk_index
                         /\ out[i].distance <= out[j].distance
                         /\ ~ScoreLess(out[i].score, out[j].score)]_vars

\* C12 witness: a search with top_k = 1 of a document of two chunks returned
\* the second chunk, the nearer one
C12_Witness ==
    /\ last.op = "search"
    /\ last.res = "ok"
    /\ last.arg.top_k = 1
    /\ Len(cache[last.doc].chunks) = 2
    /\ Len(last.out.val) = 1
    /\ last.out.val[1].chunk_index = 1
    /\ last.out.val[1].distance = 0

(***************************************************************************)
(* The build specification: one store_document call on an empty store,     *)
(* for every list of chunks and every list of embeddings up to MaxChunks,  *)
(* the embeddings having one or two coordinates.                           *)
(***************************************************************************)
BuildVecs == {<<1>>, <<2>>, <<1, 2>>}

BuildInit ==
    /\ cache = EmptyCache
    /\ disk = NoDisk
    /\ faults = 0
    /\ \E d \in DocIds, md \in Metadatas, n \in 0..MaxChunks,
          e \in SeqsUpTo(BuildVecs, MaxChunks) :
            last = [op |-> "args", doc |-> d, res |-> "ok", out |-> NoValue,
                    arg |-> [tag |-> "put", chunks |-> MkChunks(d, n),
                             embeddings |-> e, metadata |-> md],
                    io |-> "ok",
                    pre |-> NoBefore]

PutArgs ==
    /\ last.op = "args"
    /\ \E r \in {store_document(cache, disk, last.doc, last.arg.chunks,
                                 last.arg.embeddings, last.arg.metadata, "ok")} :
        /\ cache' = r.cache
        /\ disk' = r.disk
        /\ last' = [last EXCEPT !.op = "put", !.res = r.res]
    /\ UNCHANGED faults

NextBuild == PutArgs

SpecBuild == BuildInit /\ [][NextBuild]_vars

\* C13: store_document raises, and does not return normally, when the
\* number of chunks differs from the number of embeddings, when chunks is
\* empty, and when an embedding is not as long as the first one.
C13_BuildErrors ==
    last.op = "put" =>
        \A chunks \in {last.arg.chunks}, embeddings \in {last.arg.embeddings} :
            (\/ Len(chunks) # Len(embeddings)
             \/ Len(chunks) = 0
             \/ \E i \in 1..Len(embeddings) :
                    Len(embeddings[i]) # Len(embeddings[1]))
                => last.res \in BuildErrors

\* C13 witness: a put of no chunks and no embeddings raised
C13_Witness ==
    /\ last.op = "put"
    /\ last.arg.chunks = <<>>
    /\ last.arg.embeddings = <<>>
    /\ last.res = "IndexError_no_dimension"
    /\ cache = EmptyCache
    /\ disk = NoDisk

\* C15: search_multi_documents changes nothing: the cache and the files are
\* after the call what they were before it, also for the documents that were
\* not in the cache when the call started.
C15_SearchMultiMutatesNothing ==
    [][last'.op = "search_multi" => (cache' = cache /\ disk' = disk)]_vars

\* the doc_ids of a request, as a set
Requested(doc_ids) == {doc_ids[i] : i \in 1..Len(doc_ids)}

\* C15 (amended): search_multi_documents changes no file, and changes the
\* cache only by adding, for each requested document that is not cached and
\* whose file loads, the entry read from that file; every other slot of the
\* cache is left as it was.
C15_SearchMultiOnlyLoads ==
    [][last'.op = "search_multi" =>
        /\ disk' = disk
        /\ \A d \in DocIds :
            cache'[d] = IF /\ d \in Requested(last'.arg.doc_ids)
                           /\ cache[d].tag = "absent"
                           /\ disk[d].tag = "file"
                        THEN Loaded(disk, d)
                        ELSE cache[d]]_vars

\* C15 witness: a call for A and B found B cached and A on disk only, and
\* left both cached
C15_Witness ==
    /\ last.op = "search_multi"
    /\ last.arg.doc_ids = <<"B", "A">>
    /\ last.pre.c = "absent"
    /\ last.pre.k = "file"
    /\ cache["A"] = Loaded(disk, "A")
    /\ cache["B"].tag = "entry"
    /\ \E i \in 1..Len(last.out.val) : last.out.val[i].doc_id = "A"

(***************************************************************************)
(* The chunker (utils/chunking.py).  A text is a sequence of characters,   *)
(* each a string of length one.                                            *)
(***************************************************************************)
MaxText == 4        \* longest text handed to chunk_text
MaxSize == 3        \* largest chunk_size and chunk_overlap handed to TextChunker

\* config.Settings
CHUNK_SIZE == 1000
CHUNK_OVERLAP == 200

Max(a, b) == IF a >= b THEN a ELSE b

Alphabet == {"a", ".", " ", "\n"}

Whitespace == {" ", "\n"}

\* str.strip()
Strip(s) ==
    LET solid == {i \in 1..Len(s) : s[i] \notin Whitespace}
    IN IF solid = {} THEN <<>>
       ELSE SubSeq(s, CHOOSE i \in solid : \A j \in solid : i <= j,
                      CHOOSE i \in solid : \A j \in solid : i >= j)

\* text[start:end] of Python, start and end counted from 0, a negative one
\* counted from the end
SliceBound(i, n) == IF i < 0 THEN Max(i + n, 0) ELSE Min(i, n)

Slice(text, start, end) ==
    SubSeq(text, SliceBound(start, Len(text)) + 1, SliceBound(end, Len(text)))

\* the positions where sep occurs in text
Occurrences(text, sep) ==
    {i \in 1..(Len(text) - Len(sep) + 1) : SubSeq(text, i, i + Len(sep) - 1) = sep}

\* text.split(sep), sep not empty
RECURSIVE Split(_, _)
Split(text, sep) ==
    LET occ == Occurrences(text, sep)
    IN IF occ = {} THEN <<text>>
       ELSE LET i == CHOOSE k \in occ : \A j \in occ : k <= j
            IN <<SubSeq(text, 1, i - 1)>>
                 \o Split(SubSeq(text, i + Len(sep), Len(text)), sep)

\* list(text)
RECURSIVE Chars(_)
Chars(text) ==
    IF text = <<>> THEN <<>> ELSE <<<<Head(text)>>>> \o Chars(Tail(text))

\* the length of the run of newlines that starts at position i of text
RECURSIVE NewlineRun(_, _)
NewlineRun(text, i) ==
    IF i > Len(text) \/ text[i] # "\n" THEN 0 ELSE 1 + NewlineRun(text, i + 1)

\* re.split(r'\n\n+', text)
RECURSIVE SplitParagraphs(_)
SplitParagraphs(text) ==
    LET occ == {i \in 1..Len(text) : NewlineRun(text, i) >= 2}
    IN IF occ = {} THEN <<text>>
       ELSE LET i == CHOOSE k \in occ : \A j \in occ : k <= j
            IN <<SubSeq(text, 1, i - 1)>>
                 \o SplitParagraphs(SubSeq(text, i + NewlineRun(text, i),
                                           Len(text)))

\* page_nums=None, and a list of page numbers
NoPages == [none |-> TRUE, list |-> <<>>]
Pages(list) == [none |-> FALSE, list |-> list]

NoPage == [tag |-> "none"]

\* variant: every chunk in range gets the first page number
PageNumFirst(page_nums, i) ==
    IF ~page_nums.none /\ page_nums.list # <<>> /\ i < Len(page_nums.list)
    THEN [tag |-> "int", val |-> page_nums.list[1]]
    ELSE NoPage

\* page_nums[i] if page_nums and i < len(page_nums) else None
PageNum(page_nums, i) ==
    IF ~page_nums.none /\ page_nums.list # <<>> /\ i < Len(page_nums.list)
    THEN [tag |-> "int", val |-> page_nums.list[i + 1]]
    ELSE NoPage

\* f"{doc_id}_chunk_{chunk_index}"
ChunkId(doc_id, chunk_index) == doc_id \o "_chunk_" \o ToString(chunk_index)

\* len(text) // 4
_estimate_tokens(text) == Len(text) \div 4

ChunkMetadata(chunk_id, doc_id, page_num, chunk_index, text, char_count, token_count) ==
    [chunk_id |-> chunk_id, doc_id |-> doc_id, page_num |-> page_num,
     chunk_index |-> chunk_index, text |-> text, char_count |-> char_count,
     token_count |-> token_count]

\* TextChunker.__init__: value or default
OrDefault(value, default) == IF value = 0 THEN default ELSE value

TextChunker(strategy, chunk_size, chunk_overlap) ==
    [strategy |-> strategy,
     chunk_size |-> OrDefault(chunk_size, CHUNK_SIZE),
     chunk_overlap |-> OrDefault(chunk_overlap, CHUNK_OVERLAP)]

(***************************************************************************)
(* _fixed_size_chunking: the while loop of lines 64-82.  With chunk_overlap *)
(* equal to chunk_size the window never moves and the loop appends the     *)
(* same chunk for ever: res is "runs_forever".                             *)
(***************************************************************************)
RECURSIVE FixedLoop(_, _, _, _, _, _, _)
FixedLoop(self, text, doc_id, page_nums, start, chunk_index, chunks) ==
    IF ~(start < Len(text))
    THEN [res |-> "ok", chunks |-> chunks]
    ELSE LET end == start + self.chunk_size
             chunk_text == Slice(text, start, end)
         IN IF Strip(chunk_text) = <<>>
            THEN [res |-> "ok", chunks |-> chunks]
            ELSE IF end - self.chunk_overlap = start
            THEN [res |-> "runs_forever", chunks |-> <<>>]
            ELSE FixedLoop(self, text, doc_id, page_nums,
                     end - self.chunk_overlap, chunk_index + 1,
                     Append(chunks,
                         ChunkMetadata(ChunkId(doc_id, chunk_index), doc_id,
                             PageNum(page_nums, chunk_index), chunk_index,
                             chunk_text, Len(chunk_text),
                             _estimate_tokens(chunk_text))))

_fixed_size_chunking(self, text, doc_id, page_nums) ==
    FixedLoop(self, text, doc_id, page_nums, 0, 0, <<>>)

(***************************************************************************)
(* _recursive_split: SplitLoop is the for loop of lines 141-157 followed   *)
(* by lines 159-162                                                        *)
(***************************************************************************)
Separators == << <<"\n", "\n">>, <<"\n">>, <<".", " ">>, <<"!", " ">>,
                <<"?", " ">>, <<" ">>, <<>> >>

RECURSIVE _recursive_split(_, _, _, _)
RECURSIVE SplitLoop(_, _, _, _, _, _, _)
SplitLoop(self, splits, separator, separators, sep_index, chunks, current_chunk) ==
    IF splits = <<>>
    THEN IF Strip(current_chunk) # <<>>
         THEN Append(chunks, Strip(current_chunk))
         ELSE chunks
    ELSE LET split_with_sep == Head(splits) \o separator
         IN IF Len(current_chunk) + Len(split_with_sep) <= self.chunk_size
            THEN SplitLoop(self, Tail(splits), separator, separators, sep_index,
                           chunks, current_chunk \o split_with_sep)
            ELSE LET flushed == IF current_chunk # <<>>
                                THEN Append(chunks, Strip(current_chunk))
                                ELSE chunks
                 IN IF Len(split_with_sep) > self.chunk_size
                    THEN SplitLoop(self, Tail(splits), separator, separators,
                             sep_index,
                             flushed \o _recursive_split(self, split_with_sep,
                                            separators, sep_index + 1),
                             <<>>)
                    ELSE SplitLoop(self, Tail(splits), separator, separators,
                             sep_index, flushed, split_with_sep)

\* variant: the recursion stops before the last separator, the empty one
_recursive_split_to_words(self, text, separators, sep_index) ==
    IF sep_index >= Len(separators) - 1
    THEN <<text>>
    ELSE LET separator == separators[sep_index + 1]
             splits == IF separator # <<>> THEN Split(text, separator)
                       ELSE Chars(text)
         IN SplitLoop(self, splits, separator, separators, sep_index, <<>>, <<>>)

_recursive_split(self, text, separators, sep_index) ==
    IF sep_index >= Len(separators)
    THEN <<text>>
    ELSE LET separator == separators[sep_index + 1]
             splits == IF separator # <<>> THEN Split(text, separator)
                       ELSE Chars(text)
         IN SplitLoop(self, splits, separator, separators, sep_index, <<>>, <<>>)

\* variant: the chunks are numbered from the one after i
RECURSIVE ToChunkMetadataFromNext(_, _, _, _)
ToChunkMetadataFromNext(chunks, doc_id, page_nums, i) ==
    IF i >= Len(chunks) THEN <<>>
    ELSE <<ChunkMetadata(ChunkId(doc_id, i + 1), doc_id, PageNum(page_nums, i + 1),
                         i + 1, chunks[i + 1], Len(chunks[i + 1]),
                         _estimate_tokens(chunks[i + 1]))>>
           \o ToChunkMetadataFromNext(chunks, doc_id, page_nums, i + 1)

\* lines 110-120: enumerate(chunks)
RECURSIVE ToChunkMetadata(_, _, _, _)
ToChunkMetadata(chunks, doc_id, page_nums, i) ==
    IF i >= Len(chunks) THEN <<>>
    ELSE <<ChunkMetadata(ChunkId(doc_id, i), doc_id, PageNum(page_nums, i), i,
                         chunks[i + 1], Len(chunks[i + 1]),
                         _estimate_tokens(chunks[i + 1]))>>
           \o ToChunkMetadata(chunks, doc_id, page_nums, i + 1)

_recursive_chunking(self, text, doc_id, page_nums) ==
    [res |-> "ok",
     chunks |-> ToChunkMetadata(_recursive_split(self, text, Separators, 0),
                                doc_id, page_nums, 0)]

(***************************************************************************)
(* _semantic_chunking: SemanticLoop is the for loop of lines 182-201       *)
(* followed by lines 204-213                                               *)
(***************************************************************************)
RECURSIVE SemanticLoop(_, _, _, _, _, _, _)
\* variant: the buffer is never flushed before the last paragraph
SemanticLoopOneChunk(self, paragraphs, doc_id, page_nums, chunks, current_chunk, chunk_index) ==
    IF paragraphs = <<>>
    THEN IF Strip(current_chunk) # <<>>
         THEN Append(chunks,
                  ChunkMetadata(ChunkId(doc_id, chunk_index), doc_id,
                      PageNum(page_nums, chunk_index), chunk_index,
                      Strip(current_chunk), Len(current_chunk),
                      _estimate_tokens(current_chunk)))
         ELSE chunks
    ELSE LET para == Strip(Head(paragraphs))
         IN IF para = <<>>
            THEN SemanticLoop(self, Tail(paragraphs), doc_id, page_nums,
                              chunks, current_chunk, chunk_index)
            ELSE SemanticLoop(self, Tail(paragraphs), doc_id, page_nums,
                     chunks, current_chunk \o para \o <<"\n", "\n">>,
                     chunk_index)

SemanticLoop(self, paragraphs, doc_id, page_nums, chunks, current_chunk, chunk_index) ==
    IF paragraphs = <<>>
    THEN IF Strip(current_chunk) # <<>>
         THEN Append(chunks,
                  ChunkMetadata(ChunkId(doc_id, chunk_index), doc_id,
                      PageNum(page_nums, chunk_index), chunk_index,
                      Strip(current_chunk), Len(current_chunk),
                      _estimate_tokens(current_chunk)))
         ELSE chunks
    ELSE LET para == Strip(Head(paragraphs))
         IN IF para = <<>>
            THEN SemanticLoop(self, Tail(paragraphs), doc_id, page_nums,
                              chunks, current_chunk, chunk_index)
            ELSE IF /\ current_chunk # <<>>
                    /\ Len(current_chunk) + Len(para) > self.chunk_size
            THEN SemanticLoop(self, Tail(paragraphs), doc_id, page_nums,
                     Append(chunks,
                         ChunkMetadata(ChunkId(doc_id, chunk_index), doc_id,
                             PageNum(page_nums, chunk_index), chunk_index,
                             Strip(current_chunk), Len(current_chunk),
                             _estimate_tokens(current_chunk))),
                     para \o <<"\n", "\n">>, chunk_index + 1)
            ELSE SemanticLoop(self, Tail(paragraphs), doc_id, page_nums,
                     chunks, current_chunk \o para \o <<"\n", "\n">>,
                     chunk_index)

_semantic_chunking(self, text, doc_id, page_nums) ==
    [res |-> "ok",
     chunks |-> SemanticLoop(self, SplitParagraphs(text), doc_id, page_nums,
                             <<>>, <<>>, 0)]

Strategies == {"fixed", "semantic", "recursive"}

chunk_text(self, text, doc_id, page_nums) ==
    IF self.strategy = "fixed"
    THEN _fixed_size_chunking(self, text, doc_id, page_nums)
    ELSE IF self.strategy = "recursive"
    THEN _recursive_chunking(self, text, doc_id, page_nums)
    ELSE IF self.strategy = "semantic"
    THEN _semantic_chunking(self, text, doc_id, page_nums)
    ELSE [res |-> "ValueError", chunks |-> <<>>]

chunk_document(text, doc_id, strategy, chunk_size, chunk_overlap, page_nums) ==
    chunk_text(TextChunker(strategy, chunk_size, chunk_overlap), text, doc_id,
               page_nums)

(***************************************************************************)
(* The chunker specification: one chunk_document call for every text up to *)
(* MaxText characters, every strategy, every chunk_size up to MaxSize and, *)
(* for the fixed strategy (the only one that reads it), every              *)
(* chunk_overlap up to MaxSize.                                            *)
(***************************************************************************)
Texts == SeqsUpTo(Alphabet, MaxText)

PageNumsArgs == {NoPages, Pages(<<>>), Pages(<<7>>), Pages(<<7, 8>>)}

\* the chunk_size values handed to chunk_document: the small ones and the
\* one that equals the configured overlap
ChunkSizes == (1..MaxSize) \cup {CHUNK_OVERLAP}

Overlaps(strategy) == IF strategy = "fixed" THEN 0..MaxSize ELSE {0}

ChunkInit ==
    /\ cache = EmptyCache
    /\ disk = NoDisk
    /\ faults = 0
    /\ \E text \in Texts, strategy \in Strategies, chunk_size \in ChunkSizes,
          page_nums \in PageNumsArgs :
        \E chunk_overlap \in Overlaps(strategy) :
            last = [op |-> "args", doc |-> "A", res |-> "ok", out |-> NoValue,
                    arg |-> [tag |-> "chunk", text |-> text,
                             strategy |-> strategy, chunk_size |-> chunk_size,
                             chunk_overlap |-> chunk_overlap,
                             page_nums |-> page_nums],
                    io |-> "ok",
                    pre |-> NoBefore]

ChunkDocument ==
    /\ last.op = "args"
    /\ \E r \in {chunk_document(last.arg.text, last.doc, last.arg.strategy,
                                 last.arg.chunk_size, last.arg.chunk_overlap,
                                 last.arg.page_nums)} :
        last' = [last EXCEPT !.op = "chunk_document", !.res = r.res,
                             !.out = [tag |-> "chunks", val |-> r.chunks]]
    /\ UNCHANGED <<cache, disk, faults>>

NextChunk == ChunkDocument

SpecChunk == ChunkInit /\ [][NextChunk]_vars

\* the chunk list a chunk_document call returned
Returned == last.op = "chunk_document" /\ last.res = "ok"

\* C16: under every strategy the returned chunks have the chunk_index values
\* 0, 1, ..., n-1 in output order, and each chunk_id is
\* "{doc_id}_chunk_{chunk_index}", so that no two chunks share a chunk_id.
C16_ChunkIndexContiguous ==
    Returned =>
        \A chunks \in {last.out.val} :
           /\ \A i \in 1..Len(chunks) :
                /\ chunks[i].chunk_index = i - 1
                /\ chunks[i].doc_id = last.doc
                /\ chunks[i].chunk_id =
                        last.doc \o "_chunk_" \o ToString(chunks[i].chunk_index)
           /\ \A i, j \in 1..Len(chunks) :
                i # j => chunks[i].chunk_id # chunks[j].chunk_id

\* C16 witness: the recursive strategy returned three chunks, the last one
\* being A_chunk_2
C16_Witness ==
    /\ Returned
    /\ last.arg.strategy = "recursive"
    /\ Len(last.out.val) = 3
    /\ last.out.val[3].chunk_id = "A_chunk_2"
    /\ last.out.val[3].chunk_index = 2

\* C17: every chunk returned, under each strategy and for every text, has a
\* text that is not empty once its whitespace is trimmed, and an empty text
\* gives no chunk.
C17_ChunksNonEmpty ==
    Returned =>
        \A chunks \in {last.out.val} :
           /\ \A i \in 1..Len(chunks) : Strip(chunks[i].text) # <<>>
           /\ last.arg.text = <<>> => chunks = <<>>

\* the call chunk_document made under the recursive strategy has returned
ReturnedRecursive == Returned /\ last.arg.strategy = "recursive"

\* C18: under the recursive strategy with chunk_size > 0 no returned chunk is
\* longer than chunk_size characters, unless it is a single character, the
\* unit of the last separator.
C18_RecursiveWithinSize ==
    (ReturnedRecursive /\ last.arg.chunk_size > 0) =>
        \A chunks \in {last.out.val} :
           \A i \in 1..Len(chunks) :
              \/ Len(chunks[i].text) <= last.arg.chunk_size
              \/ Len(chunks[i].text) = 1

\* C18 witness: a text longer than chunk_size was cut into several chunks,
\* one of them of exactly chunk_size >= 2 characters
C18_Witness ==
    /\ ReturnedRecursive
    /\ last.arg.chunk_size >= 2
    /\ Len(last.arg.text) > last.arg.chunk_size
    /\ Len(last.out.val) >= 2
    /\ \E i \in 1..Len(last.out.val) :
          Len(last.out.val[i].text) = last.arg.chunk_size

\* the text with its whitespace deleted
RECURSIVE DeleteWhitespace(_)
DeleteWhitespace(text) ==
    IF text = <<>> THEN <<>>
    ELSE (IF Head(text) \in Whitespace THEN <<>> ELSE <<Head(text)>>)
         \o DeleteWhitespace(Tail(text))

\* the texts of the chunks, concatenated in output order
RECURSIVE ConcatTexts(_)
ConcatTexts(chunks) ==
    IF chunks = <<>> THEN <<>>
    ELSE Head(chunks).text \o ConcatTexts(Tail(chunks))

\* C19: under the recursive strategy, for every non-empty text, the returned
\* chunks concatenated in order, whitespace deleted, are exactly the input
\* with its whitespace deleted: nothing is dropped and nothing is invented.
C19_RecursiveKeepsContent ==
    (ReturnedRecursive /\ last.arg.text # <<>>) =>
        DeleteWhitespace(ConcatTexts(last.out.val))
            = DeleteWhitespace(last.arg.text)

\* ceil(a / b) for b > 0
CeilDiv(a, b) == -((-a) \div b)

\* no window text[s : s + chunk_size] that starts at a multiple of step inside
\* the text is all whitespace
NoBlankWindow(text, chunk_size, step) ==
    \A s \in 0..(Len(text) - 1) :
        s % step = 0 => Strip(Slice(text, s, s + chunk_size)) # <<>>

\* C20: under the fixed strategy with 0 <= chunk_overlap < chunk_size and no
\* all-whitespace window, chunk i is text[s : s + chunk_size] with
\* s = i * (chunk_size - chunk_overlap), and the number of chunks is
\* ceil((len(text) - chunk_overlap) / (chunk_size - chunk_overlap)).
C20_FixedOffsetsAndCount ==
    \A a \in {last.arg} :
       (/\ Returned
        /\ a.strategy = "fixed"
        /\ 0 <= a.chunk_overlap
        /\ a.chunk_overlap < a.chunk_size
        /\ NoBlankWindow(a.text, a.chunk_size, a.chunk_size - a.chunk_overlap))
       => \A chunks \in {last.out.val}, step \in {a.chunk_size - a.chunk_overlap} :
             /\ \A i \in 1..Len(chunks) :
                   chunks[i].text = Slice(a.text, (i - 1) * step,
                                          (i - 1) * step + a.chunk_size)
             /\ Len(chunks) = CeilDiv(Len(a.text) - a.chunk_overlap, step)

(***************************************************************************)
(* The concurrent specification: one store_document call and one           *)
(* _load_document call for document "A" run in two threads of one          *)
(* VectorStoreService, which takes no lock.  A step is one statement that  *)
(* reads or writes the cache or the directory.  Here last holds the frames *)
(* of the two calls: the position pc of each, its local values and its     *)
(* outcome res; old is the entry stored before the calls began.            *)
(***************************************************************************)
\* the embeddings of the new version: n vectors, none of them in Uniform
Replacing(n) == [i \in 1..n |-> <<i + MaxChunks>>]

\* the store before the two calls: no document, a document stored by an
\* earlier store_document, and the same after clear_cache (or a restart)
StoresBefore ==
    {[cache |-> EmptyCache, disk |-> NoDisk, old |-> Absent]}
    \cup UNION {
         LET r == store_document(EmptyCache, NoDisk, "A", MkChunks("A", n),
                                 Uniform(n), md, "ok")
         IN {[cache |-> r.cache, disk |-> r.disk, old |-> r.cache["A"]],
             [cache |-> clear_cache(r.cache), disk |-> r.disk,
              old |-> r.cache["A"]]}
         : n \in 1..MaxChunks, md \in Metadatas}

ConcInit ==
    /\ faults = 0
    /\ \E before \in StoresBefore, n \in 1..MaxChunks, md \in Metadatas :
          /\ cache = before.cache
          /\ disk = before.disk
          /\ last = [old |-> before.old,
                     put |-> [pc |-> "start", chunks |-> MkChunks("A", n),
                              embeddings |-> Replacing(n), metadata |-> md,
                              index |-> NoValue, res |-> "running"],
                     get |-> [pc |-> "start", data |-> NoValue,
                              res |-> "running", out |-> NoValue]]

\* store_document lines 46-55: the index is built from the arguments
PutBuild ==
    /\ last.put.pc = "start"
    /\ \E b \in {BuildIndex(last.put.chunks, last.put.embeddings)} :
          last' = [last EXCEPT !.put.index = b.index,
                               !.put.res = IF b.res = "ok" THEN "running"
                                           ELSE b.res,
                               !.put.pc = IF b.res = "ok" THEN "built"
                                          ELSE "done"]
    /\ UNCHANGED <<cache, disk, faults>>

\* store_document line 58: self._cache[doc_id] = (index, chunks, metadata or {})
PutCache ==
    /\ last.put.pc = "built"
    /\ cache' = [cache EXCEPT !["A"] =
                     Entry(last.put.index, last.put.chunks,
                           OrEmptyDict(last.put.metadata))]
    /\ last' = [last EXCEPT !.put.pc = "cached"]
    /\ UNCHANGED <<disk, faults>>

\* _save_to_disk line 240: open(file_path, "wb") truncates the file or fails
PutOpen ==
    /\ last.put.pc = "cached"
    /\ \/ /\ disk' = [disk EXCEPT !["A"] = Corrupt]
          /\ last' = [last EXCEPT !.put.pc = "opened"]
          /\ UNCHANGED faults
       \/ /\ faults < MaxFaults
          /\ \E s \in {_save_to_disk(disk, "A", last.put.index, last.put.chunks,
                                      last.put.metadata, "open_fails")} :
                /\ disk' = s.disk
                /\ last' = [last EXCEPT !.put.pc = "done", !.put.res = s.res]
          /\ faults' = faults + 1
    /\ UNCHANGED cache

\* _save_to_disk line 241: pickle.dump writes the whole file or fails
PutDump ==
    /\ last.put.pc = "opened"
    /\ \E io \in {"ok", "dump_fails"} :
       \E s \in {_save_to_disk(disk, "A", last.put.index, last.put.chunks,
                                last.put.metadata, io)} :
          /\ io # "ok" => faults < MaxFaults
          /\ faults' = IF io # "ok" THEN faults + 1 ELSE faults
          /\ disk' = s.disk
          /\ last' = [last EXCEPT !.put.pc = "done", !.put.res = s.res]
    /\ UNCHANGED cache

\* _load_document line 205: if doc_id in self._cache
GetCheck ==
    /\ last.get.pc = "start"
    /\ last' = [last EXCEPT !.get.pc = IF cache["A"].tag = "entry"
                                       THEN "hit" ELSE "missed"]
    /\ UNCHANGED <<cache, disk, faults>>

\* _load_document line 206: return self._cache[doc_id]
GetHit ==
    /\ last.get.pc = "hit"
    /\ last' = IF cache["A"].tag = "entry"
               THEN [last EXCEPT !.get.pc = "done", !.get.res = "ok",
                                 !.get.out = cache["A"]]
               ELSE [last EXCEPT !.get.pc = "done", !.get.res = "KeyError"]
    /\ UNCHANGED <<cache, disk, faults>>

\* _load_document lines 209-211: file_path.exists()
GetExists ==
    /\ last.get.pc = "missed"
    /\ last' = IF disk["A"].tag = "absent"
               THEN [last EXCEPT !.get.pc = "done",
                                 !.get.res = "FileNotFoundError"]
               ELSE [last EXCEPT !.get.pc = "exists"]
    /\ UNCHANGED <<cache, disk, faults>>

\* _load_document lines 213-217: open(file_path, "rb") and pickle.load
GetRead ==
    /\ last.get.pc = "exists"
    /\ last' = IF disk["A"].tag = "file"
               THEN [last EXCEPT !.get.pc = "loaded",
                       !.get.data =
                           Entry(disk["A"].data["index"],
                                 disk["A"].data["chunks"],
                                 DictGet(disk["A"].data, "metadata", EmptyDict))]
               ELSE [last EXCEPT !.get.pc = "done",
                       !.get.res = IF disk["A"].tag = "corrupt"
                                   THEN "UnpicklingError"
                                   ELSE "FileNotFoundError"]
    /\ UNCHANGED <<cache, disk, faults>>

\* _load_document lines 220-222: the loaded entry is cached and returned
GetCache ==
    /\ last.get.pc = "loaded"
    /\ cache' = [cache EXCEPT !["A"] = last.get.data]
    /\ last' = [last EXCEPT !.get.pc = "done", !.get.res = "ok",
                            !.get.out = last.get.data]
    /\ UNCHANGED <<disk, faults>>

NextConc ==
    \/ PutBuild \/ PutCache \/ PutOpen \/ PutDump
    \/ GetCheck \/ GetHit \/ GetExists \/ GetRead \/ GetCache

SpecConc == ConcInit /\ [][NextConc]_vars

\* the index and chunks of entry e are those of the finished build b
SameIndex(e, index, chunks) ==
    e.tag = "entry" /\ e.index = index /\ e.chunks = chunks

GotOld == last.old.tag = "entry"
          /\ SameIndex(last.get.out, last.old.index, last.old.chunks)

GotNew == SameIndex(last.get.out, last.put.index, last.put.chunks)

\* C14: a get running concurrently with a put for the same doc_id obtains
\* the complete index installed before the put (or the absence of the
\* document if there was none) or the complete index the put installs, and
\* never the index of a put that ends in failure.
C14_GetSeesOldOrNew ==
    (last.put.pc = "done" /\ last.get.pc = "done") =>
        /\ last.get.res = "ok" => (GotOld \/ GotNew)
        /\ last.get.res # "ok" =>
              (last.get.res = "FileNotFoundError" /\ last.old.tag = "absent")
        /\ last.put.res # "ok" => ~(last.get.res = "ok" /\ GotNew)

\* the call chunk_document has ended or has been found to run for ever
Called == last.op = "chunk_document"

\* C21: a call with chunk_overlap >= chunk_size is rejected with an error
\* before any chunk is produced: it neither returns a chunk list nor runs
\* without end.
C21_OverlapNotBelowSizeRejected ==
    (Called /\ last.arg.chunk_overlap >= last.arg.chunk_size) =>
        /\ last.res \notin {"ok", "runs_forever"}
        /\ last.out.val = <<>>

(***************************************************************************)
(* The paragraph specification: one chunk_document call under the semantic *)
(* strategy for every text made of up to MaxParas paragraphs, blank ones   *)
(* included, separated by two or three newlines.                           *)
(***************************************************************************)
MaxParas == 3

ParagraphPool == {<<"a">>, <<"b", "b">>, <<"a", "\n", "b">>, <<" ">>, <<>>}

ParagraphBreaks == {<<"\n", "\n">>, <<"\n", "\n", "\n">>}

RECURSIVE JoinParagraphs(_, _)
JoinParagraphs(paragraphs, break) ==
    IF paragraphs = <<>> THEN <<>>
    ELSE IF Len(paragraphs) = 1 THEN paragraphs[1]
    ELSE paragraphs[1] \o break \o JoinParagraphs(Tail(paragraphs), break)

ParagraphSizes == 1..(2 * MaxSize)

ParagraphInit ==
    /\ cache = EmptyCache
    /\ disk = NoDisk
    /\ faults = 0
    /\ \E paragraphs \in SeqsUpTo(ParagraphPool, MaxParas),
          break \in ParagraphBreaks, chunk_size \in ParagraphSizes,
          page_nums \in PageNumsArgs :
            last = [op |-> "args", doc |-> "A", res |-> "ok", out |-> NoValue,
                    arg |-> [tag |-> "chunk",
                             text |-> JoinParagraphs(paragraphs, break),
                             strategy |-> "semantic", chunk_size |-> chunk_size,
                             chunk_overlap |-> 0, page_nums |-> page_nums],
                    io |-> "ok",
                    pre |-> NoBefore]

SpecParagraphs == ParagraphInit /\ [][NextChunk]_vars

\* the paragraphs of the text that are not blank, trimmed, in input order
RECURSIVE NonBlankParagraphs(_)
NonBlankParagraphs(paragraphs) ==
    IF paragraphs = <<>> THEN <<>>
    ELSE (IF Strip(Head(paragraphs)) = <<>> THEN <<>>
          ELSE <<Strip(Head(paragraphs))>>)
         \o NonBlankParagraphs(Tail(paragraphs))

\* the paragraphs held by the chunks, in output order
RECURSIVE ChunkParagraphs(_)
ChunkParagraphs(chunks) ==
    IF chunks = <<>> THEN <<>>
    ELSE SplitParagraphs(Head(chunks).text) \o ChunkParagraphs(Tail(chunks))

ReturnedSemantic == Returned /\ last.arg.strategy = "semantic"

\* C22: under the semantic strategy every non-blank paragraph of the input,
\* trimmed, appears whole in exactly one chunk, the paragraphs keep their
\* input order across the chunks, and a chunk is longer than chunk_size only
\* if it is a single paragraph that is itself longer than chunk_size.
C22_ParagraphsAtomic ==
    ReturnedSemantic =>
        \A chunks \in {last.out.val} :
           /\ ChunkParagraphs(chunks)
                 = NonBlankParagraphs(SplitParagraphs(last.arg.text))
           /\ \A i \in 1..Len(chunks) :
                 Len(chunks[i].text) > last.arg.chunk_size
                    => Len(SplitParagraphs(chunks[i].text)) = 1

\* C22 witness: three paragraphs, one of them blank, gave two chunks, the
\* first one holding two paragraphs and the second one the last paragraph
C22_Witness ==
    /\ ReturnedSemantic
    /\ Len(SplitParagraphs(last.arg.text)) = 3
    /\ Len(last.out.val) = 2
    /\ Len(SplitParagraphs(last.out.val[1].text)) = 2
    /\ Len(SplitParagraphs(last.out.val[2].text)) = 1

\* C23: under every strategy, when page_nums is supplied the i-th returned
\* chunk has page_num = page_nums[i] if i < len(page_nums) and no page_num
\* otherwise; when page_nums is not supplied no chunk has a page_num.
C23_PageNumsPositional ==
    Returned =>
        \A chunks \in {last.out.val}, page_nums \in {last.arg.page_nums} :
           \A i \in 0..(Len(chunks) - 1) :
              chunks[i + 1].page_num =
                 IF page_nums.none THEN NoPage
                 ELSE IF i < Len(page_nums.list)
                 THEN [tag |-> "int", val |-> page_nums.list[i + 1]]
                 ELSE NoPage

\* C23 witness: three chunks for two page numbers: the first two chunks
\* carry them, the third carries none
C23_Witness ==
    /\ Returned
    /\ last.arg.page_nums = Pages(<<7, 8>>)
    /\ Len(last.out.val) = 3
    /\ last.out.val[1].page_num = [tag |-> "int", val |-> 7]
    /\ last.out.val[2].page_num = [tag |-> "int", val |-> 8]
    /\ last.out.val[3].page_num = NoPage

\* C24: chunk_document terminates for every text under every strategy when
\* chunk_size > 0 and 0 <= chunk_overlap < chunk_size, chunk_overlap = 0
\* included.
C24_Terminates ==
    (/\ Called
     /\ last.arg.chunk_size > 0
     /\ 0 <= last.arg.chunk_overlap
     /\ last.arg.chunk_overlap < last.arg.chunk_size)
    => last.res # "runs_forever"

(***************************************************************************)
(* The writers specification: two store_document calls for document "A"   *)
(* run in two threads of one VectorStoreService.  last holds the frame of  *)
(* each call.  Each pickle.dump is taken as one write of the whole file,   *)
(* the outcome most favourable to the code.                                *)
(***************************************************************************)
Writers == {"w1", "w2"}

WriterFrame(chunks, embeddings, metadata) ==
    [pc |-> "start", chunks |-> chunks, embeddings |-> embeddings,
     metadata |-> metadata, index |-> NoValue, res |-> "running"]

WritersInit ==
    /\ faults = 0
    /\ \E before \in StoresBefore, n1, n2 \in 1..MaxChunks, md \in Metadatas :
          /\ cache = before.cache
          /\ disk = before.disk
          /\ last = [w1 |-> WriterFrame(MkChunks("A", n1), Uniform(n1), md),
                     w2 |-> WriterFrame(MkChunks("A", n2), Replacing(n2), md)]

\* store_document lines 46-55
WriterBuild(t) ==
    /\ last[t].pc = "start"
    /\ \E b \in {BuildIndex(last[t].chunks, last[t].embeddings)} :
          last' = [last EXCEPT ![t].index = b.index,
                               ![t].res = IF b.res = "ok" THEN "running"
                                          ELSE b.res,
                               ![t].pc = IF b.res = "ok" THEN "built"
                                         ELSE "done"]
    /\ UNCHANGED <<cache, disk, faults>>

\* store_document line 58
WriterCache(t) ==
    /\ last[t].pc = "built"
    /\ cache' = [cache EXCEPT !["A"] =
                     Entry(last[t].index, last[t].chunks,
                           OrEmptyDict(last[t].metadata))]
    /\ last' = [last EXCEPT ![t].pc = "cached"]
    /\ UNCHANGED <<disk, faults>>

\* _save_to_disk line 240: open(file_path, "wb") truncates the file
WriterOpen(t) ==
    /\ last[t].pc = "cached"
    /\ disk' = [disk EXCEPT !["A"] = Corrupt]
    /\ last' = [last EXCEPT ![t].pc = "opened"]
    /\ UNCHANGED <<cache, faults>>

\* _save_to_disk line 241: pickle.dump
WriterDump(t) ==
    /\ last[t].pc = "opened"
    /\ \E s \in {_save_to_disk(disk, "A", last[t].index, last[t].chunks,
                                last[t].metadata, "ok")} :
          /\ disk' = s.disk
          /\ last' = [last EXCEPT ![t].pc = "done", ![t].res = s.res]
    /\ UNCHANGED <<cache, faults>>

NextWriters ==
    \E t \in Writers :
        WriterBuild(t) \/ WriterCache(t) \/ WriterOpen(t) \/ WriterDump(t)

SpecWriters == WritersInit /\ [][NextWriters]_vars

BothStored == \A t \in Writers : last[t].pc = "done" /\ last[t].res = "ok"

\* C25: once two concurrent puts for one doc_id have completed, the cache
\* entry and the file of the doc_id hold the same one of the two indexes,
\* so that a get returns the same index before and after clear_cache.
C25_WritersAgree ==
    BothStored =>
        /\ cache["A"].tag = "entry"
        /\ disk["A"].tag = "file"
        /\ \E t \in Writers :
              /\ SameIndex(cache["A"], last[t].index, last[t].chunks)
              /\ disk["A"].data["index"] = last[t].index
              /\ disk["A"].data["chunks"] = last[t].chunks
        /\ \A hot \in {_load_document(cache, disk, "A", "ok")},
              cold \in {_load_document(clear_cache(cache), disk, "A", "ok")} :
              /\ hot.res = "ok"
              /\ cold.res = "ok"
              /\ SameIndex(cold.out, hot.out.index, hot.out.chunks)

(***************************************************************************)
(* The delete specification: one delete_document call and one              *)
(* _load_document call for the stored document "A" run in two threads.     *)
(* last holds the frame get of the load and the frame del of the delete.   *)
(***************************************************************************)
DeleteInit ==
    /\ faults = 0
    /\ \E before \in {b \in StoresBefore : b.old.tag = "entry"} :
          /\ cache = before.cache
          /\ disk = before.disk
          /\ last = [old |-> before.old,
                     del |-> [pc |-> "start", res |-> "running",
                              out |-> NoValue],
                     get |-> [pc |-> "start", data |-> NoValue,
                              res |-> "running", out |-> NoValue]]

\* delete_document lines 166-167: the cache slot is dropped
DelCache ==
    /\ last.del.pc = "start"
    /\ cache' = [cache EXCEPT !["A"] = Absent]
    /\ last' = [last EXCEPT !.del.pc = "uncached"]
    /\ UNCHANGED <<disk, faults>>

\* delete_document lines 170-171 and 176: file_path.exists()
DelExists ==
    /\ last.del.pc = "uncached"
    /\ last' = IF disk["A"].tag = "absent"
               THEN [last EXCEPT !.del.pc = "done", !.del.res = "ok",
                                 !.del.out = Bool(FALSE)]
               ELSE [last EXCEPT !.del.pc = "exists"]
    /\ UNCHANGED <<cache, disk, faults>>

\* delete_document lines 172-174: file_path.unlink()
DelUnlink ==
    /\ last.del.pc = "exists"
    /\ disk' = [disk EXCEPT !["A"] = Absent]
    /\ last' = [last EXCEPT !.del.pc = "done", !.del.res = "ok",
                            !.del.out = Bool(TRUE)]
    /\ UNCHANGED <<cache, faults>>

NextDelete ==
    \/ DelCache \/ DelExists \/ DelUnlink
    \/ GetCheck \/ GetHit \/ GetExists \/ GetRead \/ GetCache

SpecDelete == DeleteInit /\ [][NextDelete]_vars

\* the load has ended and went to the directory: it had missed the cache
GetMissedCache ==
    last.get.pc = "done"
    /\ (last.get.data # NoValue \/ last.get.res = "FileNotFoundError")

\* C26: if a get that missed the cache is in progress while delete runs,
\* then after both have completed the doc_id is in neither the cache nor the
\* directory, and a get started afterwards fails with NotFound.
C26_DeleteNotUndone ==
    (last.del.pc = "done" /\ GetMissedCache) =>
        /\ cache["A"].tag = "absent"
        /\ disk["A"].tag = "absent"
        /\ _load_document(cache, disk, "A", "ok").res = "FileNotFoundError"

\* C27: a put, get or delete on a doc_id leaves the cache slot and the file
\* of every other doc_id as they were.
C27_OtherDocumentsUntouched ==
    [][last'.op \in {"put", "get", "delete"} =>
          \A d \in DocIds \ {last'.doc} :
             cache'[d] = cache[d] /\ disk'[d] = disk[d]]_vars

\* C27 witness: "A" was deleted, cache slot and file, while "B" is cached and
\* on disk
C27_Witness ==
    /\ last.op = "delete"
    /\ last.doc = "A"
    /\ last.out = Bool(TRUE)
    /\ last.pre.c = "entry"
    /\ cache["B"].tag = "entry"
    /\ disk["B"].tag = "file"

(***************************************************************************)
(* QueryService.query_documents over the document metadata store, which    *)
(* names the session of each uploaded document.  owners is that store;     *)
(* the embedding of the question and the generated answer come from        *)
(* outside and are an input (q) and left out.                              *)
(***************************************************************************)
Sessions == {"s1", "s2"}

TOP_K_PER_DOCUMENT == 3

\* doc_ids=None, and a list of doc_ids
NoDocIds == [none |-> TRUE, list |-> <<>>]
DocIdList(list) == [none |-> FALSE, list |-> list]

\* the uploads, newest first
NewestFirst == <<"B", "A">>

\* DocumentService.list_documents_by_session, as doc_ids
list_documents_by_session(owners, session_id) ==
    LET Mine(d) == owners[d] = session_id IN SelectSeq(NewestFirst, Mine)

query_documents(c, dk, owners, session_id, doc_ids, q, top_k) ==
    LET ids == IF doc_ids.none
               THEN list_documents_by_session(owners, session_id)
               ELSE doc_ids.list
    IN IF ids = <<>>
       THEN [cache |-> c, res |-> "ok", error |-> "no_documents",
             sources |-> <<>>, doc_ids_used |-> {}]
       ELSE LET r == search_multi_documents(c, dk, ids, q, TOP_K_PER_DOCUMENT,
                                            top_k)
            IN IF r.out = <<>>
               THEN [cache |-> r.cache, res |-> "ok", error |-> "no_results",
                     sources |-> <<>>,
                     doc_ids_used |-> {ids[i] : i \in 1..Len(ids)}]
               ELSE [cache |-> r.cache, res |-> "ok", error |-> "none",
                     sources |-> r.out,
                     doc_ids_used |-> {r.out[i].doc_id : i \in 1..Len(r.out)}]

(***************************************************************************)
(* The session specification: documents "A" and "B" are uploaded, each by  *)
(* one of two sessions, and one query_documents call is made.              *)
(***************************************************************************)
UploadedFiles(d) ==
    {store_document(EmptyCache, NoDisk, d, MkChunks(d, n), Uniform(n), PyNone,
                    "ok").disk[d] : n \in 1..MaxChunks}

SessionInit ==
    /\ disk \in {dk \in [DocIds -> UNION {UploadedFiles(d) : d \in DocIds}] :
                    \A d \in DocIds : dk[d] \in UploadedFiles(d)}
    /\ \E L \in SUBSET DocIds :
            cache = [d \in DocIds |-> IF d \in L THEN Loaded(disk, d) ELSE Absent]
    /\ faults = 0
    /\ \E owners \in [DocIds -> Sessions] :
          last = [op |-> "uploaded", doc |-> "A", res |-> "ok", out |-> NoValue,
                  arg |-> [tag |-> "owners", owners |-> owners], io |-> "ok",
                  pre |-> NoBefore]

QueryDocuments ==
    /\ last.op = "uploaded"
    /\ \E session_id \in Sessions, q \in QueryVecs, top_k \in 1..MaxTotal,
          doc_ids \in {NoDocIds} \cup {DocIdList(l) : l \in SeqsUpTo(DocIds, MaxIds)} :
       \E r \in {query_documents(cache, disk, last.arg.owners, session_id,
                                  doc_ids, q, top_k)} :
          /\ cache' = r.cache
          /\ last' = [op |-> "query", doc |-> "A", res |-> r.res,
                      out |-> [tag |-> "answer", sources |-> r.sources,
                               doc_ids_used |-> r.doc_ids_used,
                               error |-> r.error],
                      arg |-> [tag |-> "query", owners |-> last.arg.owners,
                               session_id |-> session_id, doc_ids |-> doc_ids,
                               q |-> q, top_k |-> top_k],
                      io |-> "ok",
                      pre |-> NoBefore]
    /\ UNCHANGED <<disk, faults>>

NextSession == QueryDocuments

SpecSession == SessionInit /\ [][NextSession]_vars

\* C28: query_documents called for a session never retrieves chunks from, nor
\* reports in doc_ids_used, a document whose stored metadata names another
\* session, whether doc_ids is omitted or given by the caller.
C28_SessionIsolation ==
    last.op = "query" =>
        \A a \in {last.arg}, o \in {last.out} :
           /\ \A d \in o.doc_ids_used : a.owners[d] = a.session_id
           /\ \A i \in 1..Len(o.sources) :
                 a.owners[o.sources[i].doc_id] = a.session_id

\* a chunker whose window size and overlap are the values passed
Given(strategy, chunk_size, chunk_overlap) ==
    [strategy |-> strategy, chunk_size |-> chunk_size,
     chunk_overlap |-> chunk_overlap]

\* C29: for every passed chunk_size > 0 and chunk_overlap >= 0, 0 included,
\* the window size and the overlap applied are the passed values and not the
\* configured defaults: the call gives what a chunker holding the passed
\* values gives.
C29_UsesGivenParameters ==
    \A a \in {last.arg} :
       (Called /\ a.chunk_size > 0 /\ a.chunk_overlap >= 0) =>
          /\ TextChunker(a.strategy, a.chunk_size, a.chunk_overlap)
                = Given(a.strategy, a.chunk_size, a.chunk_overlap)
          /\ \A r \in {chunk_text(Given(a.strategy, a.chunk_size, a.chunk_overlap),
                                   a.text, last.doc, a.page_nums)} :
                last.res = r.res /\ last.out.val = r.chunks

\* C30: for every chunk returned under every strategy, char_count is the
\* number of characters of the chunk's text and token_count is char_count
\* divided by 4, rounded down.
C30_CharAndTokenCounts ==
    Returned =>
        \A chunks \in {last.out.val} :
           \A i \in 1..Len(chunks) :
              /\ chunks[i].char_count = Len(chunks[i].text)
              /\ chunks[i].token_count = chunks[i].char_count \div 4

====
